---------------------------- MODULE Spec2Model ----------------------------
(***************************************************************************)
(* Model of src/index.ts: the locked-notarization example script.          *)
(*                                                                         *)
(* The script is one asynchronous task.  Every `await` of an SDK promise   *)
(* is a suspension point; the code between two suspension points runs to   *)
(* completion and is one action here.  The SDK calls themselves (faucet,   *)
(* balance query, client constructors, buildAndExecute) are the            *)
(* environment: each pending call either resolves with a value drawn from  *)
(* a small set or rejects.                                                 *)
(***************************************************************************)
EXTENDS Integers, Sequences, FiniteSets, TLC

VARIABLES
    pc,               \* where the task is suspended / how it ended
    keypairs,         \* addresses of the key pairs generated so far (in order)
    signers,          \* addresses wrapped by the signers created so far (in order)
    calls,            \* external SDK calls issued so far, in order
    inflight,         \* external calls issued and neither resolved nor rejected
    balance,          \* totalBalance read back by getBalance (NoBalance before)
    now_ms,           \* value Date.now() returned at line 51 (NoTime before)
    delete_unlock_at, \* the local of line 51 (NoTime before)
    builder,          \* builder methods called so far, in order
    deleteLock,       \* argument given to withDeleteLock: <<>> or <<unlockAt>>
    notarization,     \* record returned by buildAndExecute: <<>> or <<record>>
    error,            \* the error the task was rejected with (NoError if none)
    failedAssert,     \* which of the four assertions threw (0 if none)
    stdout,           \* console.log lines written, in order (as tags)
    stderr            \* console.error lines written, in order (the error logged)

vars == <<pc, keypairs, signers, calls, inflight, balance, now_ms,
          delete_unlock_at, builder, deleteLock, notarization, error,
          failedAssert, stdout, stderr>>

-----------------------------------------------------------------------------
(* Bounds of the model *)

\* Addresses Ed25519Keypair.generate() may yield: 1..MaxAddr
MaxAddr == 2
\* getBalance answers with the decimal string of an amount in 0..MaxBalance
MaxBalance == 2
\* Date.now() answers with a value in 0..MaxClockMs (milliseconds)
MaxClockMs == 1100

(* Program constants *)

\* seconds in 24 hours, line 51
SecondsPerDay == 86400
\* milliseconds per second, the divisor of line 51
MsPerSecond == 1000

Addresses == 1..MaxAddr
NoAddr == 0
NoBalance == "unread"
NoTime == -1
NoError == "none"
TotalBalances == {ToString(n) : n \in 0..MaxBalance}
ClockValues == 0..MaxClockMs

\* TimeLock / method variants the SDK can report in an OnChainNotarization
LockTypes == {"UntilDestroyed", "None", "UnlockAt"}
Methods == {"Locked", "Dynamic"}
LockingMetadata == [updateLock : [type : LockTypes], transferLock : [type : LockTypes]]
\* immutableMetadata.locking is optional: <<>> is `undefined`
OnChainNotarizations ==
    [method : Methods, locking : {<<>>} \cup {<<l>> : l \in LockingMetadata}]


-----------------------------------------------------------------------------
(* Names of the external (SDK) calls the script awaits *)

FAUCET == "requestIotaFromFaucetV0"
GET_BALANCE == "IotaClient.getBalance"
RO_CREATE == "NotarizationClientReadOnly.create"
CLIENT_CREATE == "NotarizationClient.create"
SUBMIT == "buildAndExecute"
ExternalCalls == {FAUCET, GET_BALANCE, RO_CREATE, CLIENT_CREATE, SUBMIT}

NoErrorValue == [kind |-> NoError, message |-> ""]
\* an SDK promise that rejects: the script gives it no handler of its own
Rejection(op) == [kind |-> "Rejection", message |-> op]
\* line 30
BalanceError == [kind |-> "Error", message |-> "Balance is still 0"]
\* lines 98-103: assert(...) throws an AssertionError
AssertionError == [kind |-> "AssertionError", message |-> "assert"]

\* an entry of `calls`: the call and the address it was given (NoAddr if none)
Call(op, addr) == [op |-> op, addr |-> addr]

-----------------------------------------------------------------------------
(* Pure parts of the script *)

\* Math.round of the rational num/den (den > 0): nearest integer, ties upwards
MathRound(num, den) == (2 * num + den) \div (2 * den)

computeDeleteUnlockAt_floor(ms) == (ms + SecondsPerDay * MsPerSecond) \div MsPerSecond

\* line 51: Math.round(Date.now() / 1000 + 86400)
computeDeleteUnlockAt(ms) == MathRound(ms + SecondsPerDay * MsPerSecond, MsPerSecond)

isZeroBalance_emptyString(totalBalance) == totalBalance = ""

\* line 29: balance.totalBalance === "0"
isZeroBalance(totalBalance) == totalBalance = "0"

builderChain_bothStates ==
    <<"createLocked", "withStringState", "withBytesState", "withDeleteLock",
      "withImmutableDescription", "withUpdatableMetadata", "finish">>

\* lines 57-71: the builder methods called before buildAndExecute, in order
builderChain ==
    <<"createLocked", "withBytesState", "withDeleteLock",
      "withImmutableDescription", "withUpdatableMetadata", "finish">>

firstFailedAssert_noMethodCheck(n) ==
    IF n.locking = <<>> THEN 2
    ELSE IF n.locking[1].updateLock.type # "UntilDestroyed" THEN 3
    ELSE IF n.locking[1].transferLock.type # "UntilDestroyed" THEN 4
    ELSE 0

firstFailedAssert_updateTwice(n) ==
    IF n.method # "Locked" THEN 1
    ELSE IF n.locking = <<>> THEN 2
    ELSE IF n.locking[1].updateLock.type # "UntilDestroyed" THEN 3
    ELSE IF n.locking[1].updateLock.type # "UnlockAt" THEN 4
    ELSE 0

\* lines 98-103: the four assertions run in order and the first false one throws;
\* the number of the assertion that throws, 0 if all four pass
firstFailedAssert(n) ==
    IF n.method # "Locked" THEN 1
    ELSE IF n.locking = <<>> THEN 2
    ELSE IF n.locking[1].updateLock.type # "UntilDestroyed" THEN 3
    ELSE IF n.locking[1].transferLock.type # "UntilDestroyed" THEN 4
    ELSE 0

-----------------------------------------------------------------------------
(* Initial state: the module is loaded, main() has not been called yet *)

Init ==
    /\ pc = "init"
    /\ keypairs = <<>>
    /\ signers = <<>>
    /\ calls = <<>>
    /\ inflight = {}
    /\ balance = NoBalance
    /\ now_ms = NoTime
    /\ delete_unlock_at = NoTime
    /\ builder = <<>>
    /\ deleteLock = <<>>
    /\ notarization = <<>>
    /\ error = NoErrorValue
    /\ failedAssert = 0
    /\ stdout = <<>>
    /\ stderr = <<>>

\* signer.keyId(): the address of the one signer of the run
keyId == signers[Len(signers)]

-----------------------------------------------------------------------------
(* Actions: the code run between two suspension points *)

Start_noAwait ==
    /\ pc = "init"
    /\ \E a \in Addresses :
        /\ keypairs' = Append(keypairs, a)
        /\ signers' = Append(signers, a)
        /\ calls' = calls \o <<Call(FAUCET, a), Call(GET_BALANCE, a)>>
    /\ inflight' = inflight \cup {FAUCET, GET_BALANCE}
    /\ stdout' = Append(stdout, "start")
    /\ pc' = GET_BALANCE
    /\ UNCHANGED <<balance, now_ms, delete_unlock_at, builder, deleteLock,
                   notarization, error, failedAssert, stderr>>

\* lines 113, 110, 43-48, 22-26, 14-17: main() -> createLocked() ->
\* getFundedNotarizationClient() -> requestFunds(), up to the first await
Start ==
    /\ pc = "init"
    /\ \E a \in Addresses :
        /\ keypairs' = Append(keypairs, a)
        /\ signers' = Append(signers, a)
        /\ calls' = Append(calls, Call(FAUCET, a))
    /\ inflight' = inflight \cup {FAUCET}
    /\ stdout' = Append(stdout, "start")
    /\ pc' = FAUCET
    /\ UNCHANGED <<balance, now_ms, delete_unlock_at, builder, deleteLock,
                   notarization, error, failedAssert, stderr>>

FaucetResolved_freshKey ==
    /\ pc = FAUCET
    /\ FAUCET \in inflight
    /\ \E a \in Addresses :
        /\ keypairs' = Append(keypairs, a)
        /\ signers' = Append(signers, a)
        /\ calls' = Append(calls, Call(GET_BALANCE, a))
    /\ inflight' = (inflight \ {FAUCET}) \cup {GET_BALANCE}
    /\ pc' = GET_BALANCE
    /\ UNCHANGED <<balance, now_ms, delete_unlock_at, builder,
                   deleteLock, notarization, error, failedAssert, stdout, stderr>>

\* lines 14-18, 26-28: the faucet request resolved; query the balance
FaucetResolved ==
    /\ pc = FAUCET
    /\ FAUCET \in inflight
    /\ calls' = Append(calls, Call(GET_BALANCE, keyId))
    /\ inflight' = (inflight \ {FAUCET}) \cup {GET_BALANCE}
    /\ pc' = GET_BALANCE
    /\ UNCHANGED <<keypairs, signers, balance, now_ms, delete_unlock_at, builder,
                   deleteLock, notarization, error, failedAssert, stdout, stderr>>

BalanceResolved_retryFaucet ==
    /\ pc = GET_BALANCE
    /\ GET_BALANCE \in inflight
    /\ \E b \in TotalBalances :
        /\ balance' = b
        /\ IF isZeroBalance(b) /\ Len(calls) < 4
           THEN /\ calls' = Append(calls, Call(FAUCET, keyId))
                /\ inflight' = (inflight \ {GET_BALANCE}) \cup {FAUCET}
                /\ pc' = FAUCET
                /\ UNCHANGED <<error, stdout>>
           ELSE IF isZeroBalance(b)
           THEN /\ error' = BalanceError
                /\ pc' = "rejected"
                /\ inflight' = inflight \ {GET_BALANCE}
                /\ UNCHANGED <<calls, stdout>>
           ELSE /\ stdout' = Append(stdout, "gas")
                /\ calls' = Append(calls, Call(RO_CREATE, NoAddr))
                /\ inflight' = (inflight \ {GET_BALANCE}) \cup {RO_CREATE}
                /\ pc' = RO_CREATE
                /\ UNCHANGED error
    /\ UNCHANGED <<keypairs, signers, now_ms, delete_unlock_at, builder,
                   deleteLock, notarization, failedAssert, stderr>>

\* lines 28-37: the balance query resolved with totalBalance = b
BalanceResolved ==
    /\ pc = GET_BALANCE
    /\ GET_BALANCE \in inflight
    /\ \E b \in TotalBalances :
        /\ balance' = b
        /\ IF isZeroBalance(b)
           THEN /\ error' = BalanceError
                /\ pc' = "rejected"
                /\ inflight' = inflight \ {GET_BALANCE}
                /\ UNCHANGED <<calls, stdout>>
           ELSE /\ stdout' = Append(stdout, "gas")
                /\ calls' = Append(calls, Call(RO_CREATE, NoAddr))
                /\ inflight' = (inflight \ {GET_BALANCE}) \cup {RO_CREATE}
                /\ pc' = RO_CREATE
                /\ UNCHANGED error
    /\ UNCHANGED <<keypairs, signers, now_ms, delete_unlock_at, builder,
                   deleteLock, notarization, failedAssert, stderr>>

\* lines 37-38: the read-only client was created; create the signing client
ReadOnlyResolved ==
    /\ pc = RO_CREATE
    /\ RO_CREATE \in inflight
    /\ calls' = Append(calls, Call(CLIENT_CREATE, keyId))
    /\ inflight' = (inflight \ {RO_CREATE}) \cup {CLIENT_CREATE}
    /\ pc' = CLIENT_CREATE
    /\ UNCHANGED <<keypairs, signers, balance, now_ms, delete_unlock_at, builder,
                   deleteLock, notarization, error, failedAssert, stdout, stderr>>

\* line 38: the signer the notarization client was created with
clientSigner ==
    LET i == CHOOSE i \in DOMAIN calls : calls[i].op = CLIENT_CREATE
    IN  calls[i].addr

\* lines 38, 48-72: the signing client was created; read the clock, run the
\* builder chain and submit
ClientResolved ==
    /\ pc = CLIENT_CREATE
    /\ CLIENT_CREATE \in inflight
    /\ \E ms \in ClockValues :
        /\ now_ms' = ms
        /\ delete_unlock_at' = computeDeleteUnlockAt(ms)
        /\ deleteLock' = <<computeDeleteUnlockAt(ms)>>
    /\ stdout' = Append(stdout, "building")
    /\ builder' = builder \o builderChain
    /\ calls' = Append(calls, Call(SUBMIT, clientSigner))
    /\ inflight' = (inflight \ {CLIENT_CREATE}) \cup {SUBMIT}
    /\ pc' = SUBMIT
    /\ UNCHANGED <<keypairs, signers, balance, notarization, error, failedAssert,
                   stderr>>

\* lines 57, 74-107: buildAndExecute resolved with the on-chain record n
SubmitResolved ==
    /\ pc = SUBMIT
    /\ SUBMIT \in inflight
    /\ \E n \in OnChainNotarizations :
        /\ notarization' = <<n>>
        /\ failedAssert' = firstFailedAssert(n)
        /\ IF firstFailedAssert(n) # 0
           THEN /\ error' = AssertionError
                /\ pc' = "rejected"
                /\ stdout' = stdout \o <<"created", "properties">>
           ELSE /\ pc' = "done"
                /\ stdout' = stdout \o <<"created", "properties", "locked", "deleteNote">>
                /\ UNCHANGED error
    /\ inflight' = inflight \ {SUBMIT}
    /\ UNCHANGED <<keypairs, signers, calls, balance, now_ms, delete_unlock_at,
                   builder, deleteLock, stderr>>

CallRejected_retrySubmit ==
    /\ pc \in inflight
    /\ IF pc = SUBMIT /\ Len(calls) < 6
       THEN /\ calls' = Append(calls, Call(SUBMIT, keyId))
            /\ UNCHANGED <<pc, inflight, error>>
       ELSE /\ inflight' = inflight \ {pc}
            /\ error' = Rejection(pc)
            /\ pc' = "rejected"
            /\ UNCHANGED calls
    /\ UNCHANGED <<keypairs, signers, balance, now_ms, delete_unlock_at,
                   builder, deleteLock, notarization, failedAssert, stdout, stderr>>

\* lines 14, 28, 37, 38, 72: the awaited SDK promise rejected; no await of the
\* script sits in a try block, so the rejection leaves createLocked and main
CallRejected ==
    /\ pc \in inflight
    /\ inflight' = inflight \ {pc}
    /\ error' = Rejection(pc)
    /\ pc' = "rejected"
    /\ UNCHANGED <<keypairs, signers, calls, balance, now_ms, delete_unlock_at,
                   builder, deleteLock, notarization, failedAssert, stdout, stderr>>

TopLevelCatch_missing ==
    /\ pc = "rejected"
    /\ FALSE
    /\ UNCHANGED vars

\* lines 113-116: main()'s promise rejected; the catch handler logs the error
TopLevelCatch ==
    /\ pc = "rejected"
    /\ stderr' = Append(stderr, error)
    /\ pc' = "failed"
    /\ UNCHANGED <<keypairs, signers, calls, inflight, balance, now_ms,
                   delete_unlock_at, builder, deleteLock, notarization, error,
                   failedAssert, stdout>>

Next ==
    \/ Start
    \/ FaucetResolved
    \/ BalanceResolved
    \/ ReadOnlyResolved
    \/ ClientResolved
    \/ SubmitResolved
    \/ CallRejected
    \/ TopLevelCatch

Spec == Init /\ [][Next]_vars

\* Every pending SDK call eventually resolves or rejects, and the event loop
\* runs every continuation that is ready.
FairSpec == Spec /\ WF_vars(Next)


-----------------------------------------------------------------------------
(* Vocabulary of the properties *)

Range(f) == {f[i] : i \in DOMAIN f}
CountCalls(op) == Cardinality({i \in DOMAIN calls : calls[i].op = op})
CountBuilder(m) == Cardinality({i \in DOMAIN builder : builder[i] = m})
IndexOf(m) == CHOOSE i \in DOMAIN builder : builder[i] = m
Abs(x) == IF x < 0 THEN -x ELSE x

Success == pc = "done" /\ stderr = <<>>
Failure == pc = "failed" /\ Len(stderr) = 1
ErrorPath == pc \in {"rejected", "failed"}

\* the order of section 2 of the specification
ExpectedOrder == <<FAUCET, GET_BALANCE, RO_CREATE, CLIENT_CREATE, SUBMIT>>

\* the post-creation conditions (numbered 1..4) a record violates
ViolatedConditions(n) ==
    {k \in 1..4 :
        \/ k = 1 /\ n.method # "Locked"
        \/ k = 2 /\ n.locking = <<>>
        \/ k = 3 /\ n.locking # <<>> /\ n.locking[1].updateLock.type # "UntilDestroyed"
        \/ k = 4 /\ n.locking # <<>> /\ n.locking[1].transferLock.type # "UntilDestroyed"}

-----------------------------------------------------------------------------
(* C1: whenever the balance query answered "0", the run is on the error   *)
(* path with the error "Balance is still 0" (and that is the error the     *)
(* top-level handler logs), and neither client constructor, nor the        *)
(* builder, nor buildAndExecute has been called.                           *)
C1_ZeroBalanceAborts ==
    balance = "0" =>
        /\ ErrorPath
        /\ error = BalanceError
        /\ error.message = "Balance is still 0"
        /\ pc = "failed" => stderr = <<BalanceError>>
        /\ CountCalls(RO_CREATE) = 0
        /\ CountCalls(CLIENT_CREATE) = 0
        /\ CountCalls(SUBMIT) = 0
        /\ builder = <<>>
        /\ inflight = {}

C1_Witness == balance = "0" /\ pc = "failed" /\ CountCalls(GET_BALANCE) = 1

(* C2: no run starts the builder, finishes it or submits more than once;   *)
(* and once the balance was non-zero and both clients were constructed,    *)
(* createLocked(), finish() and buildAndExecute were each called exactly   *)
(* once.                                                                   *)
C2_SubmitExactlyOnce ==
    /\ CountBuilder("createLocked") <= 1
    /\ CountBuilder("finish") <= 1
    /\ CountCalls(SUBMIT) <= 1
    /\ ( /\ balance \notin {NoBalance, "0"}
         /\ pc \notin {RO_CREATE, CLIENT_CREATE}
         /\ error \notin {Rejection(RO_CREATE), Rejection(CLIENT_CREATE)} )
       => /\ CountBuilder("createLocked") = 1
          /\ CountBuilder("finish") = 1
          /\ CountCalls(SUBMIT) = 1

C2_Witness == pc = "done" /\ balance # "0" /\ CountCalls(SUBMIT) = 1

(* C3: when the record returned by buildAndExecute violates any of the     *)
(* four post-creation conditions, an assertion of a violated condition     *)
(* has thrown, the run is on the error path with an AssertionError (the    *)
(* error the top-level handler logs), it is not in the success state and   *)
(* the final "Locked ..." confirmation has not been printed.               *)
C3_BadRecordFails ==
    (notarization # <<>> /\ ViolatedConditions(notarization[1]) # {}) =>
        /\ ErrorPath
        /\ ~Success
        /\ error = AssertionError
        /\ failedAssert \in ViolatedConditions(notarization[1])
        /\ "locked" \notin Range(stdout)
        /\ pc = "failed" => stderr = <<AssertionError>>

C3_Witness ==
    /\ pc = "failed"
    /\ notarization # <<>>
    /\ notarization[1].method = "Dynamic"
    /\ failedAssert = 1

(* C4: when the returned record has method "Locked", a locking descriptor  *)
(* and both lock types "UntilDestroyed", no assertion throws, createLocked *)
(* completes, no error is raised and the top-level handler logs nothing.   *)
C4_GoodRecordSucceeds ==
    (notarization # <<>> /\ ViolatedConditions(notarization[1]) = {}) =>
        /\ Success
        /\ failedAssert = 0
        /\ error = NoErrorValue
        /\ "locked" \in Range(stdout)
        /\ inflight = {}

C4_Witness ==
    /\ pc = "done"
    /\ notarization # <<>>
    /\ notarization[1].method = "Locked"
    /\ notarization[1].locking # <<>>
    /\ notarization[1].locking[1].updateLock.type = "UntilDestroyed"
    /\ notarization[1].locking[1].transferLock.type = "UntilDestroyed"

(* C5: the unlock time given to withDeleteLock is the clock value read     *)
(* (in seconds) plus 86400 rounded to the nearest second, halves upwards:  *)
(* it is later than the current time, less than one second away from       *)
(* now + 86400, and so within the 5 second tolerance.                      *)
C5_DeleteLockIsNowPlusDay ==
    deleteLock # <<>> =>
        LET at_ms == deleteLock[1] * MsPerSecond
            exact_ms == now_ms + SecondsPerDay * MsPerSecond
        IN  /\ now_ms # NoTime
            /\ deleteLock[1] = delete_unlock_at
            /\ 2 * Abs(at_ms - exact_ms) <= MsPerSecond
            /\ 2 * (at_ms - exact_ms) # -MsPerSecond
            /\ Abs(at_ms - exact_ms) < MsPerSecond
            /\ at_ms > now_ms
            /\ Abs(at_ms - exact_ms) <= 5 * MsPerSecond

C5_Witness ==
    /\ deleteLock # <<>>
    /\ "withDeleteLock" \in Range(builder)
    /\ now_ms % MsPerSecond = 500
    /\ deleteLock[1] = SecondsPerDay + 1

(* C6: once the builder has been used, withBytesState has been called      *)
(* exactly once, before finish(), and withStringState not at all.          *)
C6_BytesStateOnly ==
    /\ (pc = SUBMIT \/ notarization # <<>>) => builder # <<>>
    /\ builder # <<>> =>
        /\ CountBuilder("withBytesState") = 1
        /\ CountBuilder("withStringState") = 0
        /\ CountBuilder("finish") = 1
        /\ IndexOf("withBytesState") < IndexOf("finish")

C6_Witness == pc = SUBMIT /\ "withBytesState" \in Range(builder)

(* C7: the external calls issued so far are a prefix of faucet, balance,   *)
(* read-only client, signing client, submit (so each is issued at most     *)
(* once, in that order); at most one call is in flight, and it is the      *)
(* last one issued; the assertions run only after all five have resolved.  *)
C7_StrictOrder ==
    /\ Len(calls) <= Len(ExpectedOrder)
    /\ \A i \in DOMAIN calls : calls[i].op = ExpectedOrder[i]
    /\ Cardinality(inflight) <= 1
    /\ \A c \in inflight : calls # <<>> /\ calls[Len(calls)].op = c
    /\ notarization # <<>> => Len(calls) = Len(ExpectedOrder) /\ inflight = {}

C7_Witness == Len(calls) = 5 /\ notarization # <<>> /\ inflight = {}

\* what C8 says of every state
C8_StateInv ==
    /\ Len(stderr) <= 1
    /\ error # NoErrorValue <=> ErrorPath
    /\ pc = "failed" => stderr = <<error>> /\ inflight = {}
    /\ stderr # <<>> => pc = "failed"
    /\ \A op \in ExternalCalls : CountCalls(op) <= 1
    /\ pc # "init" => CountCalls(FAUCET) = 1
    /\ (pc \notin {"init", FAUCET} /\ error # Rejection(FAUCET))
         => CountCalls(GET_BALANCE) = 1

(* C8: every error (zero balance, a rejected SDK call, a failed           *)
(* assertion) puts the run on the error path, where the top-level handler  *)
(* logs that error once and the run ends; from the first failure on no     *)
(* further call is issued, no builder method runs and nothing more is      *)
(* printed; no call is ever issued twice, and the faucet request and the   *)
(* balance query are each made exactly once.                               *)
C8_ErrorsConverge ==
    /\ []C8_StateInv
    /\ [][error # NoErrorValue =>
            /\ error' = error
            /\ calls' = calls
            /\ builder' = builder
            /\ stdout' = stdout
            /\ inflight' = inflight
            /\ pc' = "failed"]_vars
    /\ [][pc # "failed"]_vars

C8_Witness ==
    /\ pc = "failed"
    /\ error = Rejection(SUBMIT)
    /\ stderr = <<Rejection(SUBMIT)>>
    /\ CountCalls(FAUCET) = 1
    /\ CountCalls(GET_BALANCE) = 1

(* C9: when every pending call eventually resolves or rejects, the run     *)
(* eventually ends in success (nothing logged as error) or in failure (the *)
(* error logged), never in both, and an ended run stays ended; the task    *)
(* leaves an awaited call only when that call has resolved or rejected, so *)
(* a call that never does keeps the run at that step.                      *)
C9_Terminates ==
    /\ <>(Success \/ Failure)
    /\ [](~(Success /\ Failure))
    /\ [](pc \in {"done", "failed"} => (Success \/ Failure))
    /\ [][(Success => Success') /\ (Failure => Failure')]_vars
    /\ [][(pc \in ExternalCalls /\ pc' # pc) =>
            (pc \in inflight /\ pc \notin inflight')]_vars

C9_Witness == Success /\ inflight = {} /\ Len(calls) = Len(ExpectedOrder)

(* C10: a run generates one key pair and creates one signer from it, and   *)
(* every call that takes an address (faucet recipient, balance owner, the  *)
(* signer of the notarization client, the submitting client) is given that *)
(* signer's address.                                                       *)
C10_OneSigner ==
    /\ Len(keypairs) <= 1
    /\ Len(signers) = Len(keypairs)
    /\ pc # "init" => Len(keypairs) = 1 /\ signers[1] = keypairs[1]
    /\ \A i \in DOMAIN calls :
        calls[i].op # RO_CREATE => calls[i].addr = signers[1]
    /\ \A i, j \in DOMAIN calls :
        (calls[i].op = GET_BALANCE /\ calls[j].op = SUBMIT)
            => calls[i].addr = calls[j].addr

C10_Witness ==
    /\ pc = "done"
    /\ Len(keypairs) = 1
    /\ \E i, j, k \in DOMAIN calls :
        /\ calls[i] = Call(FAUCET, MaxAddr)
        /\ calls[j] = Call(GET_BALANCE, MaxAddr)
        /\ calls[k] = Call(SUBMIT, MaxAddr)

=============================================================================
